---- MODULE Spec2Model ----
(***************************************************************************)
(* stack-trader: the mining extraction handler (mining/src/mining.rs) and  *)
(* the radar contact handler (radar/src/radar.rs).                         *)
(*                                                                         *)
(* Strings that name resources are modelled as a separator and a tuple of  *)
(* segments: "decs.components.s.e.c" is Dot(<<"decs","components",s,e,c>>) *)
(* and the store key "decs:components:s:e:c" is Colon of the same tuple.   *)
(* Segments hold neither '.' nor ':'.  remaining_ms (f64) and elapsed_ms   *)
(* (u32) are integers small enough that f64 arithmetic on them is exact.   *)
(***************************************************************************)
EXTENDS Integers, Sequences, FiniteSets, TLC

\* Largest remaining_ms of an extractor found in the store at the start.
MaxRemaining == 2

\* Largest elapsed_ms carried by a frame.
MaxElapsed == 2

\* A frame is handled only while at most this many published commands wait
\* to be applied by the component store.
MaxPending == 2

\* A frame is handled only while fewer than this many inventory records have
\* been credited (applied or still waiting to be applied).
MaxCredits == 2

VARIABLES
    kv,         \* component store: key -> stored value
    pending,    \* commands published and not yet applied by the store
    m_in,       \* mining handle_frame: the input of the invocation in progress
    m_out,      \* mining handle_frame: what the invocation in progress did
    POSITIONS,  \* radar: the position cache, entity id -> Position
    r_in,       \* radar handle_frame: the input of the invocation in progress
    r_out,      \* radar handle_frame: what the invocation in progress did
    view,       \* radar handle_frame, run concurrently: invocation -> its read
                \* guard on POSITIONS and what it did under it
    write,      \* handle_entity_position_change, run concurrently: invocation
                \* -> its event and its write guard on POSITIONS
    last_event, \* history: entity id -> position of the latest well-formed
                \* position-change event handled for it
    cache_fault \* what a panic under the write guard of POSITIONS left behind:
                \* "none", "poisoned" (the guard was dropped while unwinding)
                \* or "aborted" (the panic ended the process)

miningVars == <<m_in, m_out>>

radarVars == <<POSITIONS, r_in, r_out>>

cacheVars == <<view, write, last_event, cache_fault>>

vars == <<kv, pending, m_in, m_out, POSITIONS, r_in, r_out, view, write, last_event, cache_fault>>

-----------------------------------------------------------------------------
(* Strings *)

Dot(segs) == [sep |-> ".", segs |-> segs]

Colon(segs) == [sep |-> ":", segs |-> segs]

\* str::replace(from, to) on a string whose only separators are s.sep
replace(s, from, to) == IF s.sep = from THEN [s EXCEPT !.sep = to] ELSE s

\* str::split('.') on a dot-separated string
split(s) == s.segs

\* format!("{}.{}", a, b) for dot-separated a and b
Cat(a, b) == Dot(a.segs \o b.segs)

-----------------------------------------------------------------------------
(* Stored values.  serde_json::from_str::<T> succeeds exactly on a value   *)
(* of T's shape.                                                           *)

None == [kind |-> "none"]

Garbage == [kind |-> "garbage"]

MiningExtractor(remaining_ms, target) ==
    [kind |-> "extractor", remaining_ms |-> remaining_ms, target |-> target]

MiningResource(payload) == [kind |-> "resource", payload |-> payload]

RadarTransponder(color, display_name, object_type) ==
    [kind |-> "transponder", color |-> color, display_name |-> display_name,
     object_type |-> object_type]

MiningLock == [kind |-> "lock"]

Collection(items) == [kind |-> "collection", items |-> items]

EXTRACTOR == "extractor"

INVENTORY == "inventory"

DEPLETED_COLOR == "#A9A9A9"

-----------------------------------------------------------------------------
(* The world the handlers run in *)

Shard == "the_void"

Owner == "player1"

Asteroid == "asteroid1"

WellFormedTarget == Dot(<<"decs", "components", Shard, Asteroid, "mining_resource">>)

\* a resource path with fewer than four segments
ShortTarget == Dot(<<"decs", "components", "orphan">>)

Targets == {WellFormedTarget, ShortTarget}

ComponentKey(shard, entity, component) ==
    Colon(<<"decs", "components", shard, entity, component>>)

MiningKeys ==
    {ComponentKey(Shard, Owner, c) : c \in {EXTRACTOR, INVENTORY}}
    \cup {replace(t, ".", ":") : t \in Targets}
    \cup {ComponentKey(Shard, Asteroid, c) : c \in {"transponder", "mining_lock"}}

Frames ==
    [shard : {Shard}, entity_id : {Owner}, elapsed_ms : 0..MaxElapsed]

\* a frame message whose body does not parse as an EntityFrame
BadFrame == [shard |-> "", entity_id |-> "", elapsed_ms |-> -1]

\* ctx.kv().get(key): Ok(Some(v)), Ok(None)
KvGet(store, key) == IF key \in DOMAIN store THEN store[key] ELSE None

-----------------------------------------------------------------------------
(* Commands and the record of one invocation *)

Cmd(subject, params) == [subject |-> subject, params |-> params]

RidParams(rid) == [kind |-> "rid", rid |-> rid]

Verb(cmd) == cmd.subject.segs[Len(cmd.subject.segs)]

Sent(cmd) == [cmd |-> cmd, ok |-> TRUE]

Failed(cmd) == [cmd |-> cmd, ok |-> FALSE]

Read(key, value) == [key |-> key, value |-> value, ok |-> TRUE]

ReadError(key) == [key |-> key, value |-> None, ok |-> FALSE]

\* attempts: the publishes issued, in order; reads: the store lookups, in
\* order; result: "ok" (Ok), "err" (Err) or "panic"; computed: the value
\* update_extractor returned, None when it was not called.
Outcome(attempts, reads, result, computed) ==
    [attempts |-> attempts, reads |-> reads, result |-> result,
     computed |-> computed]

NoInvocation == Outcome(<<>>, <<>>, "none", None)

\* what a called function hands back to handle_frame
Step(attempts, reads, result) ==
    [attempts |-> attempts, reads |-> reads, result |-> result]

-----------------------------------------------------------------------------
(* mining/src/mining.rs *)

depleted_strict(extractor) == extractor.remaining_ms < 0

\* handle_frame picks the completion sequence on this test
depleted(extractor) == extractor.remaining_ms <= 0

update_extractor_unclamped(extractor, elapsed_ms) ==
    [extractor EXCEPT !.remaining_ms = extractor.remaining_ms - elapsed_ms]

update_extractor(extractor, elapsed_ms) ==
    LET remaining == extractor.remaining_ms - elapsed_ms
    IN  [extractor EXCEPT !.remaining_ms = IF remaining <= 0 THEN 0 ELSE remaining]

publish_extractor_to_inventory(extractor, shard, entity_id, failPublish) ==
    LET subject == Dot(<<"call", "decs", "components", shard, entity_id, INVENTORY, "new">>)
        cmd == Cmd(subject, extractor)
    IN  IF failPublish = 1
        THEN Step(<<Failed(cmd)>>, <<>>, "err")
        ELSE Step(<<Sent(cmd)>>, <<>>, "ok")

\* failPublish = 1: the publish fails
publish_extractor(extractor, shard, entity_id, failPublish) ==
    LET subject == Dot(<<"call", "decs", "components", shard, entity_id, EXTRACTOR, "set">>)
        cmd == Cmd(subject, extractor)
    IN  IF failPublish = 1
        THEN Step(<<Failed(cmd)>>, <<>>, "err")
        ELSE Step(<<Sent(cmd)>>, <<>>, "ok")

deplete_transponder_recolor_only(old_tp) ==
    RadarTransponder(DEPLETED_COLOR, old_tp.display_name, old_tp.object_type)

deplete_transponder(old_tp) ==
    RadarTransponder(DEPLETED_COLOR, old_tp.display_name \o " (depleted)",
                     old_tp.object_type)

get_transponder_or_default(store, shard, entity, failed) ==
    LET key == ComponentKey(shard, entity, "transponder")
        raw == KvGet(store, key)
    IN  IF failed THEN [ok |-> FALSE, value |-> None, read |-> ReadError(key)]
        ELSE IF raw = None \/ raw.kind # "transponder"
             THEN [ok |-> TRUE, value |-> RadarTransponder("", "", ""),
                   read |-> Read(key, raw)]
        ELSE [ok |-> TRUE, value |-> raw, read |-> Read(key, raw)]

\* failed: the store lookup itself fails.  Returns the transponder or an error.
get_transponder(store, shard, entity, failed) ==
    LET key == ComponentKey(shard, entity, "transponder")
        raw == KvGet(store, key)
    IN  IF failed THEN [ok |-> FALSE, value |-> None, read |-> ReadError(key)]
        ELSE IF raw = None THEN [ok |-> FALSE, value |-> None, read |-> Read(key, raw)]
        ELSE IF raw.kind # "transponder"
             THEN [ok |-> FALSE, value |-> None, read |-> Read(key, raw)]
        ELSE [ok |-> TRUE, value |-> raw, read |-> Read(key, raw)]

target_missing_ignored(reads) == Step(<<>>, reads, "ok")

\* the else branch of extract_resource: the target is not in the store
target_missing(reads) == Step(<<>>, reads, "err")

\* failPublish = k: the k-th publish fails; failGet = 2: the lookup of the
\* target fails, failGet = 3: the lookup of the transponder fails.
extract_resource(store, extractor, shard, entity_id, failPublish, failGet) ==
    LET resource_key == replace(extractor.target, ".", ":")
        resource_value == KvGet(store, resource_key)
        r1 == <<Read(resource_key, resource_value)>>
        player_inventory == Dot(<<"decs", "components", shard, entity_id, INVENTORY>>)
        inv_subject == Cat(Cat(Dot(<<"call">>), player_inventory), Dot(<<"new">>))
        c1 == Cmd(inv_subject, resource_value)
        del_subject == Cat(Cat(Dot(<<"call">>), extractor.target), Dot(<<"delete">>))
        c2 == Cmd(del_subject, RidParams(extractor.target))
        del_extractor_subject ==
            Dot(<<"call", "decs", "components", shard, entity_id, "extractor", "delete">>)
        c3 == Cmd(del_extractor_subject,
                  RidParams(Dot(<<"decs", "components", shard, entity_id, "extractor">>)))
        segments == split(extractor.target)
        asteroid_entity_id == segments[4]
        del_lock_subject ==
            Dot(<<"call", "decs", "components", shard, asteroid_entity_id,
                  "mining_lock", "delete">>)
        c4 == Cmd(del_lock_subject,
                  RidParams(Cat(extractor.target, Dot(<<"mining_lock">>))))
        old_tp == get_transponder(store, shard, asteroid_entity_id, failGet = 3)
        r2 == r1 \o <<old_tp.read>>
        new_tp == deplete_transponder(old_tp.value)
        update_asteroid_subject ==
            Dot(<<"call", "decs", "components", shard, asteroid_entity_id,
                  "transponder", "set">>)
        c5 == Cmd(update_asteroid_subject, new_tp)
    IN  IF failGet = 2 THEN Step(<<>>, <<ReadError(resource_key)>>, "err")
        ELSE IF resource_value = None THEN target_missing(r1)
        ELSE IF resource_value.kind # "resource" THEN Step(<<>>, r1, "err")
        ELSE IF failPublish = 1 THEN Step(<<Failed(c1)>>, r1, "err")
        ELSE IF failPublish = 2 THEN Step(<<Sent(c1), Failed(c2)>>, r1, "err")
        ELSE IF failPublish = 3
             THEN Step(<<Sent(c1), Sent(c2), Failed(c3)>>, r1, "err")
        ELSE IF Len(segments) < 4
             THEN Step(<<Sent(c1), Sent(c2), Sent(c3)>>, r1, "panic")
        ELSE IF failPublish = 4
             THEN Step(<<Sent(c1), Sent(c2), Sent(c3), Failed(c4)>>, r1, "err")
        ELSE IF ~old_tp.ok
             THEN Step(<<Sent(c1), Sent(c2), Sent(c3), Sent(c4)>>, r2, "err")
        ELSE IF failPublish = 5
             THEN Step(<<Sent(c1), Sent(c2), Sent(c3), Sent(c4), Failed(c5)>>, r2, "err")
        ELSE Step(<<Sent(c1), Sent(c2), Sent(c3), Sent(c4), Sent(c5)>>, r2, "ok")

extractor_missing_fails(reads) == Outcome(<<>>, reads, "err", None)

\* handle_frame when the entity has no extractor: the if-let is skipped
extractor_missing(reads) == Outcome(<<>>, reads, "ok", None)

\* failGet = 1: the lookup of the extractor fails
mining_handle_frame(store, frame, failPublish, failGet) ==
    LET key == ComponentKey(frame.shard, frame.entity_id, EXTRACTOR)
        extractor_value == KvGet(store, key)
        r0 == <<Read(key, extractor_value)>>
        extractor == update_extractor(extractor_value, frame.elapsed_ms)
        inner == IF depleted(extractor)
                 THEN extract_resource(store, extractor, frame.shard,
                                       frame.entity_id, failPublish, failGet)
                 ELSE publish_extractor(extractor, frame.shard, frame.entity_id,
                                        failPublish)
    IN  IF frame = BadFrame THEN Outcome(<<>>, <<>>, "err", None)
        ELSE IF failGet = 1 THEN Outcome(<<>>, <<ReadError(key)>>, "err", None)
        ELSE IF extractor_value = None THEN extractor_missing(r0)
        ELSE IF extractor_value.kind # "extractor" THEN Outcome(<<>>, r0, "err", None)
        ELSE Outcome(inner.attempts, r0 \o inner.reads, inner.result, extractor)

-----------------------------------------------------------------------------
(* radar/src/radar.rs *)

RADAR_CONTACTS == "radar_contacts"

RADAR_RECEIVER == "radar_receiver"

POSITION == "position"

Position(x, y, z) == [kind |-> "position", x |-> x, y |-> y, z |-> z]

RadarReceiver(radius) == [kind |-> "receiver", radius |-> radius]

RadarContact(entity_id, distance, azimuth, elevation) ==
    [kind |-> "contact", entity_id |-> entity_id, distance |-> distance,
     azimuth |-> azimuth, elevation |-> elevation]

NoContact == [kind |-> "none"]

ContactSet(members) == [kind |-> "set", members |-> members]

\* the square root of a perfect square
Sqrt(n) == CHOOSE k \in 0..n : k * k = n

\* the angle whose tangent (azimuth) or sine (elevation) is opposite/adjacent,
\* kept as the pair
Angle(opposite, adjacent) == <<opposite, adjacent>>

\* Position::distance_to
distance_to(a, b) ==
    Sqrt((b.x - a.x) * (b.x - a.x) + (b.y - a.y) * (b.y - a.y)
         + (b.z - a.z) * (b.z - a.z))

\* Position::vector_to
vector_to(a, b) ==
    [mag |-> distance_to(a, b),
     azimuth |-> Angle(b.y - a.y, b.x - a.x),
     elevation |-> Angle(b.z - a.z, distance_to(a, b))]

within_radius_exclusive(entity, target, radius) == distance_to(entity, target) < radius

within_radius(entity, target, radius) == distance_to(entity, target) <= radius

\* RadarContactDelta
Add(rc) == [op |-> "Add", rid |-> Dot(<<>>), contact |-> rc]

Remove_without_rid(rid) == [op |-> "Remove", rid |-> Dot(<<>>), contact |-> NoContact]

Remove(rid) == [op |-> "Remove", rid |-> rid, contact |-> NoContact]

Change(rid, rc) == [op |-> "Change", rid |-> rid, contact |-> rc]

NoDelta == [op |-> "None", rid |-> Dot(<<>>), contact |-> NoContact]

\* order: the keys of all_positions in the order the map iterates them;
\* scan: the keys of old_contacts in the order the map iterates them.
radar_updates(entity_id, current_position, radar_receiver, old_contacts, all_positions, order, scan) ==
    LET contacts == {old_contacts[c].entity_id : c \in DOMAIN old_contacts}
        found(k) == SelectSeq(scan, LAMBDA key : old_contacts[key].entity_id = k)
        rid(k) == IF found(k) # <<>> THEN replace(found(k)[1], ":", ".") ELSE Dot(<<>>)
        contact(k, v) ==
            LET to == vector_to(current_position, v)
            IN  RadarContact(k, to.mag, to.azimuth, to.elevation)
        delta(k, v) ==
            IF k \in contacts
            THEN IF within_radius(current_position, v, radar_receiver.radius)
                 THEN Change(rid(k), contact(k, v))
                 ELSE Remove(rid(k))
            ELSE IF entity_id # k
                    /\ within_radius(current_position, v, radar_receiver.radius)
            THEN Add(contact(k, v))
            ELSE NoDelta
        all == [i \in 1..Len(order) |-> delta(order[i], all_positions[order[i]])]
    IN  SelectSeq(all, LAMBDA d : d # NoDelta)

\* ctx.kv().set_members(key)
set_members(store, key) ==
    IF KvGet(store, key).kind = "set" THEN KvGet(store, key).members ELSE {}

\* the subject and payload handle_frame publishes for one delta
delta_command(update, resource_id) ==
    IF update.op = "Add"
    THEN Cmd(Cat(Cat(Dot(<<"call">>), resource_id), Dot(<<RADAR_CONTACTS, "new">>)),
             update.contact)
    ELSE IF update.op = "Remove"
    THEN Cmd(Cat(Cat(Dot(<<"call">>), resource_id), Dot(<<RADAR_CONTACTS, "delete">>)),
             RidParams(replace(update.rid, ":", ".")))
    ELSE Cmd(Cat(Cat(Dot(<<"call">>), update.rid), Dot(<<"set">>)), update.contact)

publish_updates_until_failure(updates, resource_id, failPublish) ==
    [i \in 1..(IF failPublish \in 1..Len(updates) THEN failPublish ELSE Len(updates)) |->
        IF i = failPublish
        THEN Failed(delta_command(updates[i], resource_id))
        ELSE Sent(delta_command(updates[i], resource_id))]

\* the map over updates of handle_frame, collected: publish_message is called
\* for every delta, in order; the failPublish-th publish fails
publish_updates(updates, resource_id, failPublish) ==
    [i \in 1..Len(updates) |->
        IF i = failPublish
        THEN Failed(delta_command(updates[i], resource_id))
        ELSE Sent(delta_command(updates[i], resource_id))]

parse_contact_or_default(value) ==
    IF value = None \/ value.kind = "contact" THEN value
    ELSE RadarContact("", 0, Angle(0, 0), Angle(0, 0))

\* the filter_map of handle_frame on the record of one member of the contact
\* collection: the contact, or None for a record that is absent or does not
\* parse (serde_json::from_str(..).unwrap_or(None))
parse_contact(value) == IF value.kind = "contact" THEN value ELSE None

\* what one invocation of the radar handler did: the previous contacts it
\* assembled, the deltas radar_updates returned, the publishes, the result
RadarOutcome(old_contacts, updates, attempts, result) ==
    [old_contacts |-> old_contacts, updates |-> updates, attempts |-> attempts,
     result |-> result]

RadarNoInvocation == RadarOutcome(<<>>, <<>>, <<>>, "none")

\* failGet = 1, 2, 3: the lookup of the receiver, of the position, of the
\* members of the contact collection fails; failPublish = k: the k-th publish
\* fails.  order: the keys of all_positions in the order the map iterates
\* them; scan lists every storage identifier, and old_contacts iterates its
\* own keys in that order.  A member whose lookup fails is dropped like one
\* whose record is absent.
radar_handle_frame(store, all_positions, frame, order, scan, failPublish, failGet) ==
    LET radar_receiver_value ==
            KvGet(store, ComponentKey(frame.shard, frame.entity_id, RADAR_RECEIVER))
        position_value ==
            KvGet(store, ComponentKey(frame.shard, frame.entity_id, POSITION))
        resource_id == Dot(<<"decs", "components", frame.shard, frame.entity_id>>)
        radar_contacts_key == ComponentKey(frame.shard, frame.entity_id, RADAR_CONTACTS)
        kept == {c \in set_members(store, radar_contacts_key) :
                    parse_contact(KvGet(store, replace(c, ".", ":"))) # None}
        old_contacts == [c \in kept |-> parse_contact(KvGet(store, replace(c, ".", ":")))]
        updates ==
            radar_updates(frame.entity_id, position_value, radar_receiver_value,
                          old_contacts, all_positions, order,
                          SelectSeq(scan, LAMBDA c : c \in kept))
        attempts == publish_updates(updates, resource_id, failPublish)
        failed == RadarOutcome(<<>>, <<>>, <<>>, "err")
    IN  IF frame = BadFrame THEN failed
        ELSE IF failGet = 1 \/ failGet = 2 THEN failed
        ELSE IF radar_receiver_value = None \/ position_value = None
             THEN RadarOutcome(<<>>, <<>>, <<>>, "ok")
        ELSE IF radar_receiver_value.kind # "receiver" THEN failed
        ELSE IF position_value.kind # "position" THEN failed
        ELSE IF failGet = 3 THEN failed
        ELSE RadarOutcome(old_contacts, updates, attempts, "ok")

\* the position cache after handle_entity_position_change recorded the event
position_recorded_if_absent(cache, entity, position) ==
    [e \in DOMAIN cache \cup {entity} |-> IF e \in DOMAIN cache THEN cache[e] ELSE position]

position_recorded(cache, entity, position) ==
    [e \in DOMAIN cache \cup {entity} |-> IF e = entity THEN position ELSE cache[e]]

\* the message on event.decs.components.{shard}.{entity}.position.change;
\* body: the "values" of its body, a Position or something that is not one
PositionChange(shard, entity, body) ==
    [subject |-> Dot(<<"event", "decs", "components", shard, entity, POSITION, "change">>),
     body |-> body]

NoMessage == [subject |-> Dot(<<>>), body |-> None]

\* a position-change message on a topic of three segments
MalformedTopic(body) == [subject |-> Dot(<<"event", POSITION, "change">>), body |-> body]

\* handle_entity_position_change: the result and the cache it leaves.  The
\* body is parsed first (lines 194-195); subject[4] is evaluated as the
\* argument of insert, after the write guard was taken, and panics on a
\* subject of fewer than five segments.
handle_entity_position_change(cache, msg) ==
    LET subject == split(msg.subject)
    IN  IF msg.body.kind # "position" THEN [result |-> "err", cache |-> cache]
        ELSE IF Len(subject) < 5 THEN [result |-> "panic", cache |-> cache]
        ELSE [result |-> "ok", cache |-> position_recorded(cache, subject[5], msg.body)]

\* POSITIONS.read() returns a guard once no write guard is held
read_available(readers, writers) == writers = {}

write_available_among_readers(readers, writers) == writers = {}

\* POSITIONS.write() returns a guard once no guard at all is held
write_available(readers, writers) == readers = {} /\ writers = {}

-----------------------------------------------------------------------------
(* The component store applying a published command (the command protocol: *)
(* call.<resource-path>.<verb>)                                            *)

ResourcePath(cmd) == SubSeq(cmd.subject.segs, 2, Len(cmd.subject.segs) - 1)

Applied(store, cmd) ==
    LET key == Colon(ResourcePath(cmd))
        rid_key == replace(cmd.params.rid, ".", ":")
    IN  IF Verb(cmd) = "set"
        THEN IF key \in DOMAIN store THEN [store EXCEPT ![key] = cmd.params] ELSE store
        ELSE IF Verb(cmd) = "delete"
        THEN IF rid_key \in DOMAIN store THEN [store EXCEPT ![rid_key] = None] ELSE store
        ELSE IF key \notin DOMAIN store THEN store
        ELSE IF store[key].kind = "collection"
        THEN [store EXCEPT ![key] = Collection(Append(store[key].items, cmd.params))]
        ELSE [store EXCEPT ![key] = Collection(<<cmd.params>>)]

Delivered_none(attempts) == <<>>

\* the commands of the publishes that succeeded, in order
Delivered(attempts) ==
    LET sent == SelectSeq(attempts, LAMBDA a : a.ok)
    IN  [i \in 1..Len(sent) |-> sent[i].cmd]

-----------------------------------------------------------------------------
(* Specification *)

Transponders == {RadarTransponder("#FF0000", "Ceres", "asteroid")}

Idle == m_out.result = "none"

RadarNoInput ==
    [frame |-> BadFrame, order |-> <<>>, scan |-> <<>>, failPublish |-> 0, failGet |-> 0]

NoInput == [frame |-> BadFrame, failPublish |-> 0, failGet |-> 0]

\* the invocations of the radar handler that can run at the same time
Readers == {"radar1", "radar2"}

\* the invocations of the position-change handler that can run at the same time
Writers == {"event1", "event2"}

NoView ==
    [pc |-> "none", snapshot |-> <<>>, order |-> <<>>, scan |-> <<>>, updates |-> <<>>,
     published |-> 0]

NoWrite == [pc |-> "none", entity |-> "", msg |-> NoMessage, before |-> <<>>]

\* no invocation is running
CacheIdle ==
    /\ view = [r \in Readers |-> NoView]
    /\ write = [w \in Writers |-> NoWrite]

\* The store at the start: the owner's extractor (absent, unparsable, or a
\* job on one of the targets), the record at that target, the asteroid's
\* transponder, and the asteroid's mining lock.
MiningInit ==
    /\ \E t \in Targets :
       \E ex \in {None, Garbage} \cup {MiningExtractor(r, t) : r \in (-1)..MaxRemaining},
          res \in {None, Garbage, MiningResource("ore")},
          tp \in {None, Garbage} \cup Transponders :
          kv = [k \in MiningKeys |->
                  IF k = ComponentKey(Shard, Owner, EXTRACTOR) THEN ex
                  ELSE IF k = replace(t, ".", ":") THEN res
                  ELSE IF k = ComponentKey(Shard, Asteroid, "transponder") THEN tp
                  ELSE IF k = ComponentKey(Shard, Asteroid, "mining_lock") THEN MiningLock
                  ELSE None]
    /\ pending = <<>>
    /\ m_in = NoInput
    /\ m_out = NoInvocation
    /\ POSITIONS = <<>>
    /\ r_in = RadarNoInput
    /\ r_out = RadarNoInvocation
    /\ CacheIdle
    /\ last_event = <<>>
    /\ cache_fault = "none"

\* inventory records credited to player1 so far, applied or not
Credits ==
    LET inv == kv[ComponentKey(Shard, Owner, INVENTORY)]
    IN  (IF inv.kind = "collection" THEN Len(inv.items) ELSE 0)
        + Len(SelectSeq(pending, LAMBDA c : Verb(c) = "new"))

\* One invocation of the mining handler, start to end: the guest runs one
\* handler at a time.
MiningHandleFrame(frame, failPublish, failGet) ==
    /\ Idle
    /\ Len(pending) <= MaxPending
    /\ Credits < MaxCredits
    /\ m_in' = [frame |-> frame, failPublish |-> failPublish, failGet |-> failGet]
    /\ m_out' = mining_handle_frame(kv, frame, failPublish, failGet)
    /\ pending' = pending \o Delivered(m_out'.attempts)
    /\ kv' = kv
    /\ UNCHANGED <<radarVars, cacheVars>>

\* The invocation has returned; its locals are gone.
MiningReturn ==
    /\ ~Idle
    /\ m_in' = NoInput
    /\ m_out' = NoInvocation
    /\ UNCHANGED <<kv, pending, radarVars, cacheVars>>

ApplyCommand ==
    /\ Idle
    /\ pending # <<>>
    /\ kv' = Applied(kv, Head(pending))
    /\ pending' = Tail(pending)
    /\ UNCHANGED <<m_in, m_out, radarVars, cacheVars>>

Init == MiningInit

Next ==
    \/ \E frame \in Frames \cup {BadFrame}, failPublish \in 0..5, failGet \in 0..3 :
          /\ failPublish = 0 \/ failGet = 0
          /\ MiningHandleFrame(frame, failPublish, failGet)
    \/ MiningReturn
    \/ ApplyCommand

Spec == Init /\ [][Next]_vars

-----------------------------------------------------------------------------
(* The radar handler and the position cache *)

Subject == "ship1"

Entities == {Subject, "asteroid1", "ship2"}

\* distances between them: 3, 4 and 5
Points == {Position(0, 0, 0), Position(3, 0, 0), Position(3, 0, 4)}

Radii == {3}

ContactRid(n) == Dot(<<"decs", "components", Shard, Subject, RADAR_CONTACTS, n>>)

Rids == {ContactRid("1"), ContactRid("2")}

\* a contact as published on an earlier tick
StoredContact(e) == RadarContact(e, 0, Angle(0, 0), Angle(0, 0))

RadarFrame == [shard |-> Shard, entity_id |-> Subject, elapsed_ms |-> 1]

\* every order in which a map can iterate the keys S
Orders(S) ==
    {f \in [1..Cardinality(S) -> S] : \A i, j \in 1..Cardinality(S) : f[i] = f[j] => i = j}

\* the orders in which a cache holding the entities S can iterate them
CacheOrders(S) == {SelectSeq(o, LAMBDA k : k \in S) : o \in Orders(Entities)}

RadarKeys ==
    {ComponentKey(Shard, Subject, c) : c \in {RADAR_RECEIVER, POSITION, RADAR_CONTACTS}}
    \cup {replace(c, ".", ":") : c \in Rids}

RadarStore(receiver, position, members, records) ==
    [k \in RadarKeys |->
        IF k = ComponentKey(Shard, Subject, RADAR_RECEIVER) THEN receiver
        ELSE IF k = ComponentKey(Shard, Subject, POSITION) THEN position
        ELSE IF k = ComponentKey(Shard, Subject, RADAR_CONTACTS) THEN ContactSet(members)
        ELSE records[replace(k, ":", ".")]]

\* The store at the start: the subject's receiver and position, and a contact
\* collection whose members are absent, unparsable, or contacts of any entity;
\* or a subject whose receiver or position is absent or unparsable.  The
\* position cache starts empty.
RadarInit ==
    /\ \/ \E radius \in Radii, members \in SUBSET Rids,
             records \in [Rids -> {None, Garbage} \cup {StoredContact(e) : e \in Entities}] :
             /\ \A c \in Rids \ members : records[c] = None
             /\ kv = RadarStore(RadarReceiver(radius), Position(0, 0, 0), members, records)
       \/ \E receiver \in {None, Garbage}, position \in {None, Garbage, Position(0, 0, 0)} :
             kv = RadarStore(receiver, position, {}, [c \in Rids |-> None])
       \/ \E radius \in Radii, position \in {None, Garbage} :
             kv = RadarStore(RadarReceiver(radius), position, {}, [c \in Rids |-> None])
    /\ pending = <<>>
    /\ m_in = NoInput
    /\ m_out = NoInvocation
    /\ POSITIONS = <<>>
    /\ r_in = RadarNoInput
    /\ r_out = RadarNoInvocation
    /\ CacheIdle
    /\ last_event = <<>>
    /\ cache_fault = "none"

RadarIdle == r_out.result = "none"

\* One invocation of the radar handler.  It holds its read view of the cache
\* until it returns.
RadarHandleFrame(frame, order, scan, failPublish, failGet) ==
    /\ RadarIdle
    /\ r_in' = [frame |-> frame, order |-> order, scan |-> scan,
                failPublish |-> failPublish, failGet |-> failGet]
    /\ r_out' = radar_handle_frame(kv, POSITIONS, frame, order, scan, failPublish, failGet)
    /\ UNCHANGED <<kv, pending, miningVars, POSITIONS, cacheVars>>

\* The invocation has returned: its locals are gone, its read view released.
RadarReturn ==
    /\ ~RadarIdle
    /\ r_in' = RadarNoInput
    /\ r_out' = RadarNoInvocation
    /\ UNCHANGED <<kv, pending, miningVars, POSITIONS, cacheVars>>

\* handle_entity_position_change for a well-formed event
HandleEntityPositionChange(entity, position) ==
    /\ RadarIdle
    /\ POSITIONS' =
          handle_entity_position_change(POSITIONS, PositionChange(Shard, entity, position)).cache
    /\ last_event' = [e \in DOMAIN last_event \cup {entity} |->
                          IF e = entity THEN position ELSE last_event[e]]
    /\ UNCHANGED <<kv, pending, miningVars, r_in, r_out, view, write, cache_fault>>

RadarNext ==
    \/ \E frame \in {RadarFrame, BadFrame}, order \in CacheOrders(DOMAIN POSITIONS),
          scan \in Orders(Rids),
          failPublish \in 0..Cardinality(DOMAIN POSITIONS), failGet \in 0..3 :
          /\ failPublish = 0 \/ failGet = 0
          /\ RadarHandleFrame(frame, order, scan, failPublish, failGet)
    \/ RadarReturn
    \/ \E entity \in Entities, position \in Points :
          HandleEntityPositionChange(entity, position)

RadarSpec == RadarInit /\ [][RadarNext]_vars

-----------------------------------------------------------------------------
(* The position cache under concurrent invocations: POSITIONS is a         *)
(* RwLock<HashMap>; the radar handler takes a read guard (line 69) that    *)
(* lives to the end of its if-let block (line 107), the position-change    *)
(* handler takes a write guard for the insert (lines 196-199).             *)

CacheEntities == {"asteroid1", "ship2"}

\* at distance 3 and 5 from the subject
CachePoints == {Position(3, 0, 0), Position(3, 0, 4)}

\* the invocations holding a read guard
ReadGuards == {r \in Readers : view[r].pc \in {"locked", "publishing"}}

\* the invocations holding the write guard
WriteGuards == {w \in Writers : write[w].pc \in {"locked", "inserted"}}

\* The store: the subject's receiver and position, and a contact collection
\* that is empty or holds one contact, of asteroid1.
CacheInit ==
    /\ \E members \in SUBSET {ContactRid("1")} :
          kv = RadarStore(RadarReceiver(3), Position(0, 0, 0), members,
                          [c \in Rids |-> IF c \in members THEN StoredContact("asteroid1")
                                          ELSE None])
    /\ pending = <<>>
    /\ m_in = NoInput
    /\ m_out = NoInvocation
    /\ POSITIONS = <<>>
    /\ r_in = RadarNoInput
    /\ r_out = RadarNoInvocation
    /\ CacheIdle
    /\ last_event = <<>>
    /\ cache_fault = "none"

\* line 69: POSITIONS.read().unwrap()
RadarReadLock(r) ==
    /\ view[r].pc = "none"
    /\ cache_fault = "none"
    /\ read_available(ReadGuards, WriteGuards)
    /\ view' = [view EXCEPT ![r] = [NoView EXCEPT !.pc = "locked", !.snapshot = POSITIONS]]
    /\ UNCHANGED <<kv, pending, miningVars, radarVars, write, last_event, cache_fault>>

\* line 69 on a poisoned lock: read() returns Err(PoisonError), unwrap panics
RadarReadPanics(r) ==
    /\ view[r].pc = "none"
    /\ cache_fault = "poisoned"
    /\ read_available(ReadGuards, WriteGuards)
    /\ view' = [view EXCEPT ![r] = [NoView EXCEPT !.pc = "panicked"]]
    /\ UNCHANGED <<kv, pending, miningVars, radarVars, write, last_event, cache_fault>>

\* the panicked invocation is gone
RadarUnwound(r) ==
    /\ view[r].pc = "panicked"
    /\ view' = [view EXCEPT ![r] = NoView]
    /\ UNCHANGED <<kv, pending, miningVars, radarVars, write, last_event, cache_fault>>

\* lines 70-76: radar_updates on the guarded map
RadarComputeUpdates(r, order, scan) ==
    /\ view[r].pc = "locked"
    /\ view' = [view EXCEPT ![r] =
                  [@ EXCEPT !.pc = "publishing", !.order = order, !.scan = scan,
                            !.updates = radar_handle_frame(kv, POSITIONS, RadarFrame,
                                                           order, scan, 0, 0).updates]]
    /\ UNCHANGED <<kv, pending, miningVars, radarVars, write, last_event, cache_fault>>

\* lines 78-106: the publish of the next delta
RadarPublishDelta(r) ==
    /\ view[r].pc = "publishing"
    /\ view[r].published < Len(view[r].updates)
    /\ view' = [view EXCEPT ![r].published = @ + 1]
    /\ UNCHANGED <<kv, pending, miningVars, radarVars, write, last_event, cache_fault>>

\* line 107: the guard goes out of scope
RadarReadUnlock(r) ==
    /\ view[r].pc = "publishing"
    /\ view[r].published = Len(view[r].updates)
    /\ view' = [view EXCEPT ![r] = NoView]
    /\ UNCHANGED <<kv, pending, miningVars, radarVars, write, last_event, cache_fault>>

\* an event about entity arrives
PositionChangeReceived(w, entity, body) ==
    /\ write[w].pc = "none"
    /\ write' = [write EXCEPT ![w] =
                   [NoWrite EXCEPT !.pc = "received", !.entity = entity,
                                   !.msg = PositionChange(Shard, entity, body)]]
    /\ UNCHANGED <<kv, pending, miningVars, radarVars, view, last_event, cache_fault>>

\* an event arrives on a topic of three segments
MalformedTopicReceived(w, body) ==
    /\ write[w].pc = "none"
    /\ write' = [write EXCEPT ![w] =
                   [NoWrite EXCEPT !.pc = "received", !.msg = MalformedTopic(body)]]
    /\ UNCHANGED <<kv, pending, miningVars, radarVars, view, last_event, cache_fault>>

\* lines 194-195: the body does not parse, the handler returns the error
PositionChangeRejected(w) ==
    /\ write[w].pc = "received"
    /\ handle_entity_position_change(POSITIONS, write[w].msg).result = "err"
    /\ write' = [write EXCEPT ![w] = NoWrite]
    /\ UNCHANGED <<kv, pending, miningVars, radarVars, view, last_event, cache_fault>>

\* lines 196-198: POSITIONS.write().unwrap()
PositionChangeWriteLock(w) ==
    /\ write[w].pc = "received"
    /\ write[w].msg.body.kind = "position"
    /\ cache_fault = "none"
    /\ write_available(ReadGuards, WriteGuards)
    /\ write' = [write EXCEPT ![w].pc = "locked"]
    /\ UNCHANGED <<kv, pending, miningVars, radarVars, view, last_event, cache_fault>>

\* lines 196-198 on a poisoned lock: write() returns Err(PoisonError), unwrap
\* panics
PositionChangeWritePanics(w) ==
    /\ write[w].pc = "received"
    /\ write[w].msg.body.kind = "position"
    /\ cache_fault = "poisoned"
    /\ write_available(ReadGuards, WriteGuards)
    /\ write' = [write EXCEPT ![w].pc = "panicked"]
    /\ UNCHANGED <<kv, pending, miningVars, radarVars, view, last_event, cache_fault>>

\* line 199: subject[4] panics under the write guard.  outcome: "poisoned"
\* when the panic unwinds (the guard is dropped by a panicking thread),
\* "aborted" when a panic ends the process.
PositionChangeIndexPanics(w, outcome) ==
    /\ write[w].pc = "locked"
    /\ handle_entity_position_change(POSITIONS, write[w].msg).result = "panic"
    /\ cache_fault' = outcome
    /\ write' = [write EXCEPT ![w].pc = "panicked"]
    /\ UNCHANGED <<kv, pending, miningVars, radarVars, view, last_event>>

\* the panicked invocation is gone
PositionChangeUnwound(w) ==
    /\ write[w].pc = "panicked"
    /\ write' = [write EXCEPT ![w] = NoWrite]
    /\ UNCHANGED <<kv, pending, miningVars, radarVars, view, last_event, cache_fault>>

\* line 199: insert under the write guard
PositionChangeInsert(w) ==
    /\ write[w].pc = "locked"
    /\ handle_entity_position_change(POSITIONS, write[w].msg).result = "ok"
    /\ POSITIONS' = handle_entity_position_change(POSITIONS, write[w].msg).cache
    /\ last_event' = [e \in DOMAIN last_event \cup {write[w].entity} |->
                          IF e = write[w].entity THEN write[w].msg.body ELSE last_event[e]]
    /\ write' = [write EXCEPT ![w].pc = "inserted", ![w].before = POSITIONS]
    /\ UNCHANGED <<kv, pending, miningVars, r_in, r_out, view, cache_fault>>

\* line 199, end of statement: the write guard is dropped
PositionChangeWriteUnlock(w) ==
    /\ write[w].pc = "inserted"
    /\ write' = [write EXCEPT ![w] = NoWrite]
    /\ UNCHANGED <<kv, pending, miningVars, radarVars, view, last_event, cache_fault>>

\* the steps of the handlers' invocations
CacheStep ==
    \/ \E r \in Readers : RadarReadLock(r)
    \/ \E r \in Readers : RadarReadPanics(r)
    \/ \E r \in Readers : RadarUnwound(r)
    \/ \E r \in Readers, order \in CacheOrders(DOMAIN POSITIONS), scan \in Orders(Rids) :
          RadarComputeUpdates(r, order, scan)
    \/ \E r \in Readers : RadarPublishDelta(r)
    \/ \E r \in Readers : RadarReadUnlock(r)
    \/ \E w \in Writers, entity \in CacheEntities, body \in CachePoints \cup {Garbage} :
          PositionChangeReceived(w, entity, body)
    \/ \E w \in Writers, body \in {Position(3, 0, 0), Garbage} :
          MalformedTopicReceived(w, body)
    \/ \E w \in Writers : PositionChangeRejected(w)
    \/ \E w \in Writers : PositionChangeWriteLock(w)
    \/ \E w \in Writers : PositionChangeWritePanics(w)
    \/ \E w \in Writers : PositionChangeInsert(w)
    \/ \E w \in Writers, outcome \in {"poisoned", "aborted"} :
          PositionChangeIndexPanics(w, outcome)
    \/ \E w \in Writers : PositionChangeUnwound(w)
    \/ \E w \in Writers : PositionChangeWriteUnlock(w)

\* nothing runs in a process that a panic ended
CacheNext == cache_fault # "aborted" /\ CacheStep

CacheSpec == CacheInit /\ [][CacheNext]_vars

-----------------------------------------------------------------------------
(* Properties of the mining handler.  They speak of the invocation in     *)
(* progress: its frame (m_in), its lookups and publishes (m_out), and the  *)
(* store, which the invocation itself leaves as it found it.               *)

\* the extractor the invocation found in the store
StoredExtractor == m_out.reads[1].value

ExtractorRead ==
    /\ ~Idle
    /\ m_in.frame # BadFrame
    /\ Len(m_out.reads) >= 1
    /\ m_out.reads[1].ok
    /\ StoredExtractor.kind = "extractor"

Left == StoredExtractor.remaining_ms - m_in.frame.elapsed_ms

\* the tick takes the extractor to zero
CompletingTick == ExtractorRead /\ Left <= 0

\* the tick leaves time on the extractor
ActiveTick == ExtractorRead /\ Left > 0

AsteroidOf(target) == target.segs[4]

TargetRecord == kv[replace(StoredExtractor.target, ".", ":")]

TransponderRecord ==
    kv[ComponentKey(m_in.frame.shard, AsteroidOf(StoredExtractor.target), "transponder")]

ComponentSubject(entity, component, verb) ==
    Dot(<<"call", "decs", "components", m_in.frame.shard, entity, component, verb>>)

\* the subject of step i of the completion sequence
CompletionSubject(i) ==
    LET target == StoredExtractor.target
    IN  IF i = 1 THEN ComponentSubject(m_in.frame.entity_id, "inventory", "new")
        ELSE IF i = 2 THEN Dot(<<"call">> \o target.segs \o <<"delete">>)
        ELSE IF i = 3 THEN ComponentSubject(m_in.frame.entity_id, "extractor", "delete")
        ELSE IF i = 4 THEN ComponentSubject(AsteroidOf(target), "mining_lock", "delete")
        ELSE ComponentSubject(AsteroidOf(target), "transponder", "set")

\* the invocation issued exactly the first n publishes of the sequence
Attempted(n) ==
    /\ Len(m_out.attempts) = n
    /\ \A i \in 1..n : m_out.attempts[i].cmd.subject = CompletionSubject(i)

AllSent(n) == \A i \in 1..n : m_out.attempts[i].ok

\* the last n commands waiting for the store are the first n of the invocation
Queued(n) ==
    /\ Len(pending) >= n
    /\ \A i \in 1..n : pending[Len(pending) - n + i] = m_out.attempts[i].cmd

\* C1: a tick that takes the extractor to zero (remaining_ms = elapsed_ms
\* included), with the target record and the asteroid's transponder in the
\* store and no failing publish or lookup, publishes exactly: 'new' on the
\* owner's inventory, 'delete' of the target, 'delete' of the owner's
\* extractor, 'delete' of the asteroid's mining lock, 'set' of the asteroid's
\* transponder, in this order, and no 'set' of the extractor.
C1_CompletionSequence ==
    ( /\ CompletingTick
      /\ m_in.failPublish = 0 /\ m_in.failGet = 0
      /\ Len(StoredExtractor.target.segs) >= 4
      /\ TargetRecord.kind = "resource"
      /\ TransponderRecord.kind = "transponder" )
    => /\ Attempted(5)
       /\ AllSent(5)
       /\ m_out.result = "ok"
       /\ \A i \in 1..Len(m_out.attempts) :
             m_out.attempts[i].cmd.subject
                # ComponentSubject(m_in.frame.entity_id, "extractor", "set")

C1_Witness ==
    /\ CompletingTick
    /\ StoredExtractor.remaining_ms > 0
    /\ Left = 0
    /\ Len(m_out.attempts) = 5
    /\ m_out.result = "ok"

\* C2: a tick that leaves time on the extractor publishes one command, the
\* 'set' of the owner's extractor with remaining_ms - elapsed_ms and the same
\* target, and looks up nothing but the extractor.
C2_ActiveTickSetsExtractor ==
    ActiveTick
    => /\ Len(m_out.attempts) = 1
       /\ m_out.attempts[1].cmd =
            Cmd(ComponentSubject(m_in.frame.entity_id, "extractor", "set"),
                MiningExtractor(Left, StoredExtractor.target))
       /\ Len(m_out.reads) = 1

C2_Witness ==
    /\ ActiveTick
    /\ m_in.frame.elapsed_ms > 0
    /\ m_out.result = "ok"
    /\ Len(m_out.attempts) = 1

\* C3: an extractor computed by update_extractor, and an extractor published
\* by a 'set', never has remaining_ms < 0; and when the stored remaining_ms is
\* >= 0 the tick does not raise it.
C3_RemainingNeverNegative ==
    /\ m_out.computed # None => m_out.computed.remaining_ms >= 0
    /\ \A i \in 1..Len(m_out.attempts) :
          m_out.attempts[i].cmd.params.kind = "extractor"
          => m_out.attempts[i].cmd.params.remaining_ms >= 0
    /\ (ExtractorRead /\ StoredExtractor.remaining_ms >= 0)
       => /\ m_out.computed.remaining_ms <= StoredExtractor.remaining_ms
          /\ \A i \in 1..Len(m_out.attempts) :
                m_out.attempts[i].cmd.params.kind = "extractor"
                => m_out.attempts[i].cmd.params.remaining_ms
                      <= StoredExtractor.remaining_ms

C3_Witness ==
    /\ ExtractorRead
    /\ StoredExtractor.remaining_ms > 0
    /\ Left < 0
    /\ m_out.computed.remaining_ms = 0

\* the completion sequence found no record at extractor.target
TargetAbsentTick ==
    /\ CompletingTick
    /\ Len(m_out.reads) >= 2
    /\ m_out.reads[2].ok
    /\ m_out.reads[2].value = None

\* C4: when the completion sequence finds no record at extractor.target, the
\* invocation returns an error, publishes nothing, and the store and the
\* commands waiting for it are as they were before the tick.
C4_MissingTargetNoMutation ==
    /\ [](TargetAbsentTick => (m_out.result = "err" /\ m_out.attempts = <<>>))
    /\ [][(Idle /\ TargetAbsentTick') => (kv' = kv /\ pending' = pending)]_vars

C4_Witness ==
    /\ TargetAbsentTick
    /\ kv[ComponentKey(Shard, Owner, EXTRACTOR)].kind = "extractor"
    /\ kv[ComponentKey(Shard, Owner, EXTRACTOR)].remaining_ms > 0
    /\ m_out.result = "err"

\* the completion sequence got as far as its first publish
PublishingTick ==
    /\ CompletingTick
    /\ m_in.failGet # 2
    /\ TargetRecord.kind = "resource"

\* C5: in the completion sequence, when publish k fails the invocation returns
\* an error with publishes 1..k-1 issued and delivered and none after k; when
\* the transponder lookup fails or finds nothing parsable, the four publishes
\* before it were issued and delivered and the transponder 'set' was not.
C5_PartialCompletion ==
    /\ \A k \in 1..5 :
          ( /\ PublishingTick
            /\ m_in.failPublish = k
            /\ k > 3 => Len(StoredExtractor.target.segs) >= 4
            /\ k = 5 => TransponderRecord.kind = "transponder" )
          => /\ m_out.result = "err"
             /\ Attempted(k)
             /\ AllSent(k - 1)
             /\ ~m_out.attempts[k].ok
             /\ Queued(k - 1)
    /\ ( /\ PublishingTick
         /\ m_in.failPublish = 0
         /\ Len(StoredExtractor.target.segs) >= 4
         /\ m_in.failGet = 3 \/ TransponderRecord.kind # "transponder" )
       => /\ m_out.result = "err"
          /\ Attempted(4)
          /\ AllSent(4)
          /\ Queued(4)

C5_Witness ==
    /\ PublishingTick
    /\ m_in.failPublish = 0 /\ m_in.failGet = 0
    /\ Len(StoredExtractor.target.segs) >= 4
    /\ TransponderRecord = None
    /\ Len(m_out.attempts) = 4
    /\ m_out.result = "err"

\* C6: the transponder published last in the completion sequence has the
\* depleted color, the stored display_name followed by " (depleted)" and the
\* stored object_type, and is addressed to the transponder of the asteroid
\* named by the fourth segment of extractor.target.
C6_DepletedTransponder ==
    (CompletingTick /\ Len(m_out.attempts) = 5)
    => /\ m_out.attempts[5].cmd.subject
            = ComponentSubject(StoredExtractor.target.segs[4], "transponder", "set")
       /\ m_out.attempts[5].cmd.params.color = DEPLETED_COLOR
       /\ m_out.attempts[5].cmd.params.display_name
            = TransponderRecord.display_name \o " (depleted)"
       /\ m_out.attempts[5].cmd.params.object_type = TransponderRecord.object_type
       /\ m_out.attempts[5].cmd.params.kind = "transponder"

C6_Witness ==
    /\ CompletingTick
    /\ Len(m_out.attempts) = 5
    /\ m_out.attempts[5].ok
    /\ TransponderRecord.display_name = "Ceres"

-----------------------------------------------------------------------------
(* Properties of radar_updates.  They speak of the invocation in progress: *)
(* the subject's position and receiver in the store, the previous contacts *)
(* handle_frame assembled, the position cache, and the deltas returned.    *)

\* the invocation read a receiver and a position and called radar_updates
RadarRan ==
    /\ ~RadarIdle
    /\ r_in.frame # BadFrame
    /\ r_in.failGet = 0
    /\ kv[ComponentKey(Shard, r_in.frame.entity_id, RADAR_RECEIVER)].kind = "receiver"
    /\ kv[ComponentKey(Shard, r_in.frame.entity_id, POSITION)].kind = "position"

SubjectPosition == kv[ComponentKey(Shard, r_in.frame.entity_id, POSITION)]

SensorRadius == kv[ComponentKey(Shard, r_in.frame.entity_id, RADAR_RECEIVER)].radius

Previous == r_out.old_contacts

PreviousEntities == {Previous[c].entity_id : c \in DOMAIN Previous}

SquaredDistance(a, b) ==
    (b.x - a.x) * (b.x - a.x) + (b.y - a.y) * (b.y - a.y) + (b.z - a.z) * (b.z - a.z)

\* the cached position of e is within the radius of the subject
InRange(e) ==
    /\ SensorRadius >= 0
    /\ SquaredDistance(SubjectPosition, POSITIONS[e]) <= SensorRadius * SensorRadius

\* the contact of e as seen from the subject
ContactOf(e) ==
    LET to == vector_to(SubjectPosition, POSITIONS[e])
    IN  RadarContact(e, to.mag, to.azimuth, to.elevation)

Updates == r_out.updates

Adds(e) ==
    {i \in 1..Len(Updates) : Updates[i].op = "Add" /\ Updates[i].contact.entity_id = e}

Changes(c) == {i \in 1..Len(Updates) : Updates[i].op = "Change" /\ Updates[i].rid = c}

Removes(c) == {i \in 1..Len(Updates) : Updates[i].op = "Remove" /\ Updates[i].rid = c}

\* delta i is about entity e: it carries a contact of e, or the storage
\* identifier of a previous contact of e
Concerns(i, e) ==
    \/ Updates[i].op \in {"Add", "Change"} /\ Updates[i].contact.entity_id = e
    \/ /\ Updates[i].op \in {"Change", "Remove"}
       /\ Updates[i].rid \in DOMAIN Previous
       /\ Previous[Updates[i].rid].entity_id = e

\* C7: every cached entity that is not the subject, is the entity_id of no
\* previous contact and is within the radius gets exactly one Add, carrying
\* the geometry of the vector from the subject to it; one outside the radius
\* that is no previous contact gets no delta.
C7_AddForNewContacts ==
    RadarRan =>
        \A e \in DOMAIN POSITIONS :
            (e # r_in.frame.entity_id /\ e \notin PreviousEntities)
            => IF InRange(e)
               THEN /\ Cardinality(Adds(e)) = 1
                    /\ \A i \in Adds(e) : Updates[i].contact = ContactOf(e)
                    /\ \A i \in 1..Len(Updates) : Concerns(i, e) => i \in Adds(e)
               ELSE \A i \in 1..Len(Updates) : ~Concerns(i, e)

C7_Witness ==
    /\ RadarRan
    /\ \E e, f \in DOMAIN POSITIONS :
          /\ e # r_in.frame.entity_id /\ e \notin PreviousEntities
          /\ f # r_in.frame.entity_id /\ f \notin PreviousEntities
          /\ SquaredDistance(SubjectPosition, POSITIONS[e]) = SensorRadius * SensorRadius
          /\ Cardinality(Adds(e)) = 1
          /\ ~InRange(f)
          /\ Len(Updates) = 1

\* C8 (as claimed): every previous contact whose entity is cached outside the
\* radius gets exactly one Remove carrying its own storage identifier, and no
\* Add or Change.
C8_RemovePerContact ==
    RadarRan =>
        \A c \in DOMAIN Previous :
            (Previous[c].entity_id \in DOMAIN POSITIONS /\ ~InRange(Previous[c].entity_id))
            => /\ Cardinality(Removes(c)) = 1
               /\ Changes(c) = {}
               /\ Adds(Previous[c].entity_id) = {}

\* C9 (as claimed): every previous contact whose entity is cached within the
\* radius gets exactly one Change carrying its own storage identifier and the
\* entity's contact recomputed from the current positions, and no Add or
\* Remove.
C9_ChangePerContact ==
    RadarRan =>
        \A c \in DOMAIN Previous :
            (Previous[c].entity_id \in DOMAIN POSITIONS /\ InRange(Previous[c].entity_id))
            => /\ Cardinality(Changes(c)) = 1
               /\ \A i \in Changes(c) : Updates[i].contact = ContactOf(Previous[c].entity_id)
               /\ Removes(c) = {}
               /\ Adds(Previous[c].entity_id) = {}

\* C10 (as claimed): no delta is about the subject's own entity.
C10_SubjectNeverInOutput ==
    RadarRan => \A i \in 1..Len(Updates) : ~Concerns(i, r_in.frame.entity_id)

\* the radii within_radius is tried on
RadiusRange == 0..6

\* some Change delta carries a contact of e
Changed(e) ==
    \E i \in 1..Len(Updates) : Updates[i].op = "Change" /\ Updates[i].contact.entity_id = e

\* some Remove delta carries the storage identifier of a previous contact of e
Removed(e) ==
    \E i \in 1..Len(Updates) :
        /\ Updates[i].op = "Remove"
        /\ Updates[i].rid \in DOMAIN Previous
        /\ Previous[Updates[i].rid].entity_id = e

\* C11: within_radius is true for every pair of positions at a distance equal
\* to or below the radius and false for every pair at a distance above it;
\* and radar_updates decides with this test on both paths: a cached entity
\* that is a previous contact gets a Change when its distance is <= radius and
\* a Remove when it is above, and a cached entity that is neither a previous
\* contact nor the subject gets an Add exactly when its distance is <= radius.
C11_InclusiveRadius ==
    /\ \A p, q \in Points, radius \in RadiusRange :
          within_radius(p, q, radius) <=> SquaredDistance(p, q) <= radius * radius
    /\ RadarRan =>
          \A e \in DOMAIN POSITIONS :
              IF e \in PreviousEntities
              THEN /\ Changed(e) <=> InRange(e)
                   /\ Removed(e) <=> ~InRange(e)
              ELSE e # r_in.frame.entity_id => (Adds(e) # {} <=> InRange(e))

C11_Witness ==
    /\ RadarRan
    /\ \E e, f, g \in DOMAIN POSITIONS :
          /\ e \in PreviousEntities
          /\ f \notin PreviousEntities /\ f # r_in.frame.entity_id
          /\ SquaredDistance(SubjectPosition, POSITIONS[e]) = SensorRadius * SensorRadius
          /\ SquaredDistance(SubjectPosition, POSITIONS[f]) = SensorRadius * SensorRadius
          /\ SquaredDistance(SubjectPosition, POSITIONS[g]) < SensorRadius * SensorRadius
          /\ Changed(e)
          /\ Adds(f) # {}

\* C12: in the deltas of one call, no two Change/Remove deltas carry the same
\* storage identifier, no two Add deltas carry the same entity id, and every
\* Change/Remove carries the (non-empty) storage identifier of a previous
\* contact.
C12_NoDuplicateDeltas ==
    RadarRan =>
        /\ \A i, j \in 1..Len(Updates) :
              (i # j /\ Updates[i].op \in {"Change", "Remove"}
                     /\ Updates[j].op \in {"Change", "Remove"})
              => Updates[i].rid # Updates[j].rid
        /\ \A i, j \in 1..Len(Updates) :
              (i # j /\ Updates[i].op = "Add" /\ Updates[j].op = "Add")
              => Updates[i].contact.entity_id # Updates[j].contact.entity_id
        /\ \A i \in 1..Len(Updates) :
              Updates[i].op \in {"Change", "Remove"}
              => /\ Updates[i].rid # Dot(<<>>)
                 /\ Updates[i].rid \in DOMAIN Previous

C12_Witness ==
    /\ RadarRan
    /\ \E i, j, k \in 1..Len(Updates) :
          /\ Updates[i].op = "Change"
          /\ Updates[j].op = "Remove"
          /\ Updates[k].op = "Add"
          /\ Updates[i].rid # Updates[j].rid

\* the deltas of a call as a set
DeltaSet(updates) == {updates[i] : i \in 1..Len(updates)}

\* the deltas radar_updates returns on the inputs of the invocation in
\* progress when the two maps iterate in the orders order and scan
UpdatesUnder(order, scan) ==
    radar_updates(r_in.frame.entity_id, SubjectPosition,
                  kv[ComponentKey(Shard, r_in.frame.entity_id, RADAR_RECEIVER)],
                  Previous, POSITIONS, order,
                  SelectSeq(scan, LAMBDA c : c \in DOMAIN Previous))

\* C13 (as claimed): on the same subject, position, radius, previous contacts
\* and position snapshot, radar_updates returns the same set of deltas in
\* whatever orders the two maps iterate, two previous contacts with the same
\* entity_id included.
C13_DeterministicDeltaSet ==
    RadarRan =>
        \A order \in CacheOrders(DOMAIN POSITIONS), scan \in Orders(Rids) :
            DeltaSet(UpdatesUnder(order, scan)) = DeltaSet(Updates)

\* the previous contacts no Remove deletes
Kept == {c \in DOMAIN Previous : Removes(c) = {}}

\* the contact stored at c once the deltas are applied
ContactAfter(c) ==
    IF Changes(c) # {} THEN Updates[CHOOSE i \in Changes(c) : TRUE].contact ELSE Previous[c]

\* how many contacts of e the contact list holds once the deltas are applied:
\* the kept or changed previous contacts and the added ones
ContactsOf(e) ==
    Cardinality({c \in Kept : ContactAfter(c).entity_id = e}) + Cardinality(Adds(e))

\* C14 (as claimed): once the deltas are applied to the previous contacts, the
\* contact list holds exactly one contact for every cached entity other than
\* the subject that is within the radius, and none for any other entity.
C14_Reconciled ==
    RadarRan =>
        \A e \in Entities :
            ContactsOf(e) =
                IF e \in DOMAIN POSITIONS /\ e # r_in.frame.entity_id /\ InRange(e)
                THEN 1 ELSE 0

\* C17 (as claimed): when the publish of a delta's command fails, the
\* invocation of the radar handler returns an error.
C17_PublishFailureSurfaced ==
    (RadarRan /\ \E i \in 1..Len(r_out.attempts) : ~r_out.attempts[i].ok)
    => r_out.result = "err"

\* the completion sequence issued its fourth publish, the lock 'delete'
LockDeleteIssued ==
    /\ CompletingTick
    /\ Len(StoredExtractor.target.segs) >= 4
    /\ Len(m_out.attempts) >= 4

\* C18 (as claimed): the lock 'delete' is addressed to the mining_lock of the
\* asteroid named by the fourth segment of extractor.target, and the rid of
\* its payload is the resource path its subject addresses.
C18_LockDeleteRid ==
    LockDeleteIssued
    => /\ m_out.attempts[4].cmd.subject
            = ComponentSubject(AsteroidOf(StoredExtractor.target), "mining_lock", "delete")
       /\ m_out.attempts[4].cmd.params
            = RidParams(Dot(ResourcePath(m_out.attempts[4].cmd)))

\* C19 (as claimed): a completion whose target has fewer than four segments
\* and whose record is in the store ends with an error result.
C19_ShortTargetError ==
    ( /\ PublishingTick
      /\ m_in.failPublish = 0 /\ m_in.failGet = 0
      /\ Len(StoredExtractor.target.segs) < 4 )
    => m_out.result = "err"

\* the members of the subject's contact collection
Members == set_members(kv, ComponentKey(Shard, r_in.frame.entity_id, RADAR_CONTACTS))

\* the members whose record is absent or does not parse as a contact
Dropped == {c \in Members : kv[replace(c, ".", ":")].kind # "contact"}

\* C20: the members of the contact collection whose record is absent or
\* unparsable are left out of the previous contacts, which are the other
\* members with their records; the invocation does not fail, it issues one
\* publish per delta, no Change or Remove carries a dropped storage
\* identifier, and every cached entity within the radius that is not the
\* subject and has no parsed previous contact is published as an Add ('new'
\* on the subject's contact collection).
C20_DroppedContacts ==
    RadarRan =>
        /\ r_out.result = "ok"
        /\ DOMAIN Previous = Members \ Dropped
        /\ \A c \in DOMAIN Previous : Previous[c] = kv[replace(c, ".", ":")]
        /\ \A c \in Dropped : Changes(c) = {} /\ Removes(c) = {}
        /\ Len(r_out.attempts) = Len(Updates)
        /\ \A e \in DOMAIN POSITIONS :
              (e # r_in.frame.entity_id /\ e \notin PreviousEntities /\ InRange(e))
              => \E i \in 1..Len(Updates) :
                    /\ Updates[i] = Add(ContactOf(e))
                    /\ r_out.attempts[i].cmd =
                          Cmd(Dot(<<"call", "decs", "components", Shard,
                                    r_in.frame.entity_id, RADAR_CONTACTS, "new">>),
                              ContactOf(e))

C20_Witness ==
    /\ RadarRan
    /\ \E c, d \in Members :
          /\ kv[replace(c, ".", ":")] = Garbage
          /\ d \in DOMAIN Previous
          /\ Changes(d) # {} \/ Removes(d) # {}
    /\ \E e \in DOMAIN POSITIONS : Adds(e) # {}
    /\ \A i \in 1..Len(r_out.attempts) : r_out.attempts[i].ok

-----------------------------------------------------------------------------
(* Properties of the position cache *)

C16_CacheLocking ==
    /\ \A r \in ReadGuards : POSITIONS = view[r].snapshot
    /\ \A r \in Readers :
          view[r].pc = "publishing"
          => view[r].updates =
                radar_handle_frame(kv, view[r].snapshot, RadarFrame, view[r].order,
                                   view[r].scan, 0, 0).updates
    /\ Cardinality(WriteGuards) <= 1
    /\ WriteGuards # {} => ReadGuards = {}

\* two invocations hold read guards at once, one of them between two
\* publishes, while an event waits for the write guard
C16_Witness ==
    /\ ReadGuards = Readers
    /\ \E r \in Readers :
          /\ view[r].pc = "publishing"
          /\ view[r].published >= 1
          /\ view[r].published < Len(view[r].updates)
    /\ \E w \in Writers : write[w].pc = "received" /\ write[w].msg.body.kind = "position"

-----------------------------------------------------------------------------
(* The mining handler on a stale store: handle_frame reads the store and   *)
(* publishes commands; nothing makes a frame wait until the commands of    *)
(* the frame before it were applied.                                       *)

\* A frame is handled on a stale store only while at most this many published
\* commands wait to be applied.
MaxStale == 5

\* The store at the start: a job of player1 on the asteroid's resource, the
\* resource, the asteroid's transponder and its mining lock.
RaceInit ==
    /\ \E r \in 1..MaxRemaining, tp \in Transponders :
          kv = [k \in MiningKeys |->
                  IF k = ComponentKey(Shard, Owner, EXTRACTOR)
                  THEN MiningExtractor(r, WellFormedTarget)
                  ELSE IF k = replace(WellFormedTarget, ".", ":") THEN MiningResource("ore")
                  ELSE IF k = ComponentKey(Shard, Asteroid, "transponder") THEN tp
                  ELSE IF k = ComponentKey(Shard, Asteroid, "mining_lock") THEN MiningLock
                  ELSE None]
    /\ pending = <<>>
    /\ m_in = NoInput
    /\ m_out = NoInvocation
    /\ POSITIONS = <<>>
    /\ r_in = RadarNoInput
    /\ r_out = RadarNoInvocation
    /\ CacheIdle
    /\ last_event = <<>>
    /\ cache_fault = "none"

\* One invocation of the mining handler, whatever waits to be applied.
MiningHandleStaleFrame(frame) ==
    /\ Idle
    /\ Len(pending) <= MaxStale
    /\ Credits < MaxCredits
    /\ m_in' = [frame |-> frame, failPublish |-> 0, failGet |-> 0]
    /\ m_out' = mining_handle_frame(kv, frame, 0, 0)
    /\ pending' = pending \o Delivered(m_out'.attempts)
    /\ kv' = kv
    /\ UNCHANGED <<radarVars, cacheVars>>

RaceNext ==
    \/ \E frame \in Frames : MiningHandleStaleFrame(frame)
    \/ MiningReturn
    \/ ApplyCommand

RaceSpec == RaceInit /\ [][RaceNext]_vars

\* C21: the handler decides on the stored extractor alone: it never looks up
\* the mining lock, and a tick that takes the stored extractor to zero, with
\* the target and the transponder in the store, publishes the five commands
\* of the completion sequence, the inventory 'new' of the stored resource
\* first, whatever commands of earlier frames still wait to be applied.
C21_NoLockAroundCompletion ==
    /\ \A i \in 1..Len(m_out.reads) :
          m_out.reads[i].key # ComponentKey(Shard, Asteroid, "mining_lock")
    /\ ( /\ CompletingTick
         /\ TargetRecord.kind = "resource"
         /\ TransponderRecord.kind = "transponder" )
       => /\ Attempted(5)
          /\ AllSent(5)
          /\ Queued(5)
          /\ m_out.attempts[1].cmd =
                Cmd(ComponentSubject(m_in.frame.entity_id, "inventory", "new"),
                    TargetRecord)

\* two frames read the same stored extractor and both ran the completion
\* sequence: the commands of one job wait twice, its inventory 'new' included
C21_Witness ==
    /\ CompletingTick
    /\ m_out.result = "ok"
    /\ Len(pending) = 10
    /\ \A i \in 1..5 : pending[i] = pending[i + 5]
    /\ Verb(pending[1]) = "new" /\ Verb(pending[6]) = "new"
    /\ kv[ComponentKey(Shard, Owner, EXTRACTOR)] = StoredExtractor

\* the extractor of player1 is gone from the store and no command waits
Orphaned ==
    /\ kv[ComponentKey(Shard, Owner, EXTRACTOR)] = None
    /\ pending = <<>>

\* C22: once the extractor is deleted from the store and no command waits to
\* be applied (as after a completion that stopped at the transponder lookup
\* and whose deletes were applied), every frame for the entity finds no
\* extractor, returns Ok and publishes nothing; the store stays as it is, so
\* the asteroid's transponder is never changed by a later invocation.
C22_RetryDoesNotConverge ==
    /\ []((Orphaned /\ ~Idle /\ m_in.frame # BadFrame /\ m_in.failGet = 0)
          => /\ m_out.result = "ok"
             /\ m_out.attempts = <<>>
             /\ Len(m_out.reads) = 1
             /\ m_out.reads[1].value = None)
    /\ [][Orphaned => (Orphaned' /\ kv' = kv)]_vars

\* the inventory was credited, the target and the extractor are deleted, the
\* transponder still has its first presentation, and a frame was redelivered
C22_Witness ==
    /\ Orphaned
    /\ ~Idle
    /\ m_in.frame # BadFrame /\ m_in.frame.elapsed_ms > 0 /\ m_in.failGet = 0
    /\ m_out.attempts = <<>>
    /\ kv[ComponentKey(Shard, Owner, INVENTORY)].kind = "collection"
    /\ kv[replace(WellFormedTarget, ".", ":")] = None
    /\ kv[ComponentKey(Shard, Asteroid, "transponder")] \in Transponders

\* the command the radar handler is to publish for a delta
CommandFor(update) ==
    LET collection == <<"call", "decs", "components", Shard, r_in.frame.entity_id,
                        RADAR_CONTACTS>>
    IN  IF update.op = "Add" THEN Cmd(Dot(collection \o <<"new">>), update.contact)
        ELSE IF update.op = "Remove"
        THEN Cmd(Dot(collection \o <<"delete">>), RidParams(update.rid))
        ELSE Cmd(Dot(<<"call">> \o update.rid.segs \o <<"set">>), update.contact)

\* C23: the radar handler attempts one publish per delta of radar_updates, in
\* the order of the deltas, each with the command of its delta; when one
\* publish fails, the publishes of the deltas after it are still attempted
\* and succeed.
C23_OnePublishPerDelta ==
    RadarRan =>
        /\ Len(r_out.attempts) = Len(Updates)
        /\ \A i \in 1..Len(Updates) :
              /\ r_out.attempts[i].cmd = CommandFor(Updates[i])
              /\ r_out.attempts[i].ok <=> i # r_in.failPublish

C23_Witness ==
    /\ RadarRan
    /\ r_in.failPublish = 1
    /\ Len(Updates) >= 2
    /\ Len(r_out.attempts) = Len(Updates)
    /\ ~r_out.attempts[1].ok
    /\ r_out.attempts[2].ok

\* C24 (as claimed): a position-change event that cannot be handled fails its
\* own invocation only, and the cache stays usable: the process goes on, no
\* invocation of the radar handler fails to read the cache, and no
\* well-formed event fails to be recorded.
C24_BadEventContained ==
    /\ cache_fault # "aborted"
    /\ \A r \in Readers : view[r].pc # "panicked"
    /\ \A w \in Writers :
          write[w].pc = "panicked" => Len(split(write[w].msg.subject)) < 5

-----------------------------------------------------------------------------
(* The mining handler when everything goes well: frames with elapsed_ms > 0 *)
(* keep arriving, every publish succeeds, and the store applies the        *)
(* commands of a frame before the next frame is handled.                   *)

\* Largest remaining_ms of the extractor at the start.
MaxLiveRemaining == 6

LiveTransponders ==
    {RadarTransponder("#FF0000", name, "asteroid") : name \in {"Ceres", "Vesta"}}

LiveResources == {MiningResource(payload) : payload \in {"ore", "ice"}}

\* The store at the start: a job of player1 on the asteroid's resource, the
\* resource, the asteroid's transponder and its mining lock; no inventory.
LiveInit ==
    /\ \E r \in 1..MaxLiveRemaining, res \in LiveResources, tp \in LiveTransponders :
          kv = [k \in MiningKeys |->
                  IF k = ComponentKey(Shard, Owner, EXTRACTOR)
                  THEN MiningExtractor(r, WellFormedTarget)
                  ELSE IF k = replace(WellFormedTarget, ".", ":") THEN res
                  ELSE IF k = ComponentKey(Shard, Asteroid, "transponder") THEN tp
                  ELSE IF k = ComponentKey(Shard, Asteroid, "mining_lock") THEN MiningLock
                  ELSE None]
    /\ pending = <<>>
    /\ m_in = NoInput
    /\ m_out = NoInvocation
    /\ POSITIONS = <<>>
    /\ r_in = RadarNoInput
    /\ r_out = RadarNoInvocation
    /\ CacheIdle
    /\ last_event = <<>>
    /\ cache_fault = "none"

\* One invocation of the mining handler on a store that has applied every
\* command published before; no publish and no lookup fails.
LiveHandleFrame(frame) ==
    /\ Idle
    /\ pending = <<>>
    /\ frame.elapsed_ms > 0
    /\ m_in' = [frame |-> frame, failPublish |-> 0, failGet |-> 0]
    /\ m_out' = mining_handle_frame(kv, frame, 0, 0)
    /\ pending' = Delivered(m_out'.attempts)
    /\ kv' = kv
    /\ UNCHANGED <<radarVars, cacheVars>>

LiveFrame == \E frame \in Frames : LiveHandleFrame(frame)

LiveNext ==
    \/ LiveFrame
    \/ MiningReturn
    \/ ApplyCommand

\* frames keep arriving, invocations return, the store keeps applying
LiveSpec ==
    /\ LiveInit
    /\ [][LiveNext]_vars
    /\ WF_vars(LiveFrame)
    /\ WF_vars(MiningReturn)
    /\ WF_vars(ApplyCommand)

\* the extractor and the target are deleted, the inventory holds one record,
\* the transponder has the depleted presentation
Harvested ==
    /\ kv[ComponentKey(Shard, Owner, EXTRACTOR)] = None
    /\ kv[replace(WellFormedTarget, ".", ":")] = None
    /\ kv[ComponentKey(Shard, Owner, INVENTORY)].kind = "collection"
    /\ Len(kv[ComponentKey(Shard, Owner, INVENTORY)].items) = 1
    /\ kv[ComponentKey(Shard, Asteroid, "transponder")].kind = "transponder"
    /\ kv[ComponentKey(Shard, Asteroid, "transponder")].color = DEPLETED_COLOR

\* Terminal: harvested, and the asteroid's mining lock is deleted
Terminal ==
    /\ Harvested
    /\ kv[ComponentKey(Shard, Asteroid, "mining_lock")] = None

\* C25 (as claimed): the extractor eventually reaches Terminal (extractor,
\* target and lock deleted, inventory credited once, transponder depleted)
\* and from then on frames publish nothing.
C25_ReachesTerminal == <>[](Terminal /\ m_out.attempts = <<>> /\ pending = <<>>)

====
